---- MODULE Spec2Model ----
(***************************************************************************)
(* Reconnecting websocket client: the connection lifecycle core            *)
(* (src/src/core.rs), the builder and reconnect policy                     *)
(* (src/src/factory.rs), the event router (src/src/emitter.rs), the RPC     *)
(* correlation table (src/src/simple_rpc.rs) and the client facade         *)
(* (src/src/lib.rs).                                                       *)
(*                                                                         *)
(* The host environment (the browser's WebSocket, setTimeout, setInterval, *)
(* clearInterval) is modelled at its interface: a transport handle has a   *)
(* ready state and fires open / error / close events, a timer table holds  *)
(* the scheduled tasks.  All callbacks run to completion on one thread, so *)
(* every handler is one atomic action.                                     *)
(***************************************************************************)
EXTENDS Integers, Sequences, FiniteSets, TLC

\* ------------------------------------------------------------------ bounds
\* Transport handles ever constructed (the first one included).
MaxHandles == 3
\* Retry closures ever built by build_retry_closure.
MaxRetries == 3
\* RPC requests ever prepared.
MaxRequests == 2
\* Blob messages whose FileReader read is pending at one time.
MaxReads == 2

\* -------------------------------------------------------- program constants
\* core.rs:233 and core.rs:272: schedule_reconnect(&retry_callback, 1000u32)
RECONNECT_DELAY == 1000
\* lib.rs:51 and lib.rs:55: code.unwrap_or(1000u16), close(1000u16, None)
NORMAL_CLOSURE == 1000

\* ------------------------------------------------------------- input sets
\* Topic names the application registers listeners for.
Topics == {"trades", "orders"}
\* Topics the core emits locally (core.rs:190, core.rs:208, core.rs:240).
LocalEvents == {"open", "close", "error"}
TopicNames == Topics \cup LocalEvents
\* Identities of the listener closures the application passes in.
Callbacks == {"cb1"}
\* A missing entry of the handlers map.
NoHandler == "none"
\* Option<T>: None is the empty sequence, Some(x) the sequence <<x>>.
None == <<>>
Some(x) == <<x>>
\* Close codes and reasons the application passes to Websocket::close (codes the
\* transport accepts: 1000 and 3000..4999).
CloseCodes == {None, Some(4000)}
CloseReasons == {None, Some("bye")}
\* An application text message for Websocket::send.
AppFrame == <<"msg", "hello">>
\* The builder as WsFactory::new leaves it: reconnect Some, no user callbacks.
DefaultCfg == [on_open |-> FALSE, on_close |-> FALSE, on_error |-> FALSE,
               reconnect |-> TRUE]
\* Topics of the calls made on the Emitter directly: application topics and a
\* local event.
EmitterTopics == Topics \cup {"open"}
\* Listener closures of an application that registers more than one.
EmitterCallbacks == {"cb1", "cb2"}
\* Payloads handed to Emitter::emit.
EmitPayloads == {"p1", "p2"}
\* The (callback, error_callback) pairs the application passes to send_*_rpc.
RpcCallbacks == {<<"ok1", "err1">>, <<"ok2", "err2">>}
\* jsonrpc_core::Params variants of a request.
RpcParams == {"Map", "Array", "None"}
\* jsonrpc_core::Id of a response envelope: a number, a string or null.  The
\* number MaxRequests is an id no request of the model is ever given.
Num(n) == <<"Num", n>>
Str(x) == <<"Str", x>>
Null == <<"Null">>
ResponseIds == {Num(n) : n \in 0..MaxRequests} \cup {Str("1"), Str("abc"), Null}
\* Inbound JSON objects, by what the router reads of them: the first key, for a
\* "jsonrpc" envelope the kind of jsonrpc_core::Response it deserializes to
\* ("invalid": not a response, e.g. a server notification) and its id, and the
\* result, the error message or the value under the first key.
Envelope(kind, i, val) == [key |-> "jsonrpc", kind |-> kind, id |-> i, val |-> val]
Event(t, val) == [key |-> t, kind |-> "event", id |-> Null, val |-> val]
RpcInbound ==
    {Envelope("success", i, "result") : i \in ResponseIds}
    \cup {Envelope("failure", i, "message") : i \in ResponseIds}
    \cup {Envelope("invalid", Null, "")}
EventInbound == {Event(t, "data") : t \in Topics}
\* Payloads the router cannot take: "garbage" is no JSON text (as text, or as bytes),
\* "nokey" is JSON text without a ':' (a number, an array of numbers).
Bad(kind) == [key |-> "", kind |-> kind, id |-> Null, val |-> ""]
BadInbound == {Bad("garbage"), Bad("nokey")}
\* One payload of every kind the router tells apart: a success and a failure
\* response to the first request, the topic messages and the unusable payloads.
ClientInbound ==
    {Envelope("success", Num(0), "result"), Envelope("failure", Num(0), "message")}
    \cup EventInbound \cup BadInbound
\* What MessageEvent.data() is: a JsString, an ArrayBuffer or a Blob.
SyncData == {"text", "buffer"}
AllData == SyncData \cup {"blob"}

VARIABLES
    cfg,             \* WsFactory: which of on_open/on_close/on_error/reconnect are Some
    is_closing,      \* WsFactory.is_closing
    facade,          \* "alive" while the application owns the Websocket, then "dropped"
    websocket,       \* WsCore.websocket: the handle the shared cell holds
    readyState,      \* readyState[h]: ready state of transport handle h
    interval_id,     \* interval_id[h]: Pinger.interval_id of the pinger wired to handle h
    intervals,       \* host timer table: ids of the active setInterval tasks
    nIntervals,      \* host: ids handed out by setInterval so far
    timeouts,        \* host timer table: pending setTimeout tasks [cb, delay]
    retry_closure,   \* ReconnectConfig.retry_closure: Option of a retry closure id
    nClosures,       \* retry closures built so far
    is_reconnecting, \* ReconnectConfig.is_reconnecting
    handlers,        \* Emitter.handlers: topic -> callback
    regOrder,        \* history: topics in the order of their first registration
    closeSeen,       \* history: retry closures that were pending when close was called
    act,             \* the operation that took the last step
    arg,             \* the input the application gave that operation (<<>> when none)
    out,             \* transport sends and reads made by the last step, in order
    closes,          \* transport close calls made by the last step, in order
    cbs,             \* application callbacks invoked by the last step, in order
    panicked,        \* the last step ended in a panic (a trap of the wasm instance)
    id,              \* RPCSubscriber.id
    subscriber,      \* RPCSubscriber.subscriber: request id -> callback
    error_subscriber,\* RPCSubscriber.error_subscriber: request id -> error callback
    rpc_borrowed,    \* the RefCell of the RPCSubscriber is left mutably borrowed
    issued,          \* history: the ids prepare_request returned, with the handle then current
    reading          \* host: blobs whose FileReader read is pending, in delivery order

vars == <<cfg, is_closing, facade, websocket, readyState, interval_id, intervals,
          nIntervals, timeouts, retry_closure, nClosures, is_reconnecting, handlers,
          regOrder, closeSeen, act, arg, out, closes, cbs, panicked, id, subscriber,
          error_subscriber, rpc_borrowed, issued, reading>>

conn == <<websocket, readyState>>
pingers == <<interval_id, intervals, nIntervals>>
retries == <<timeouts, retry_closure, nClosures>>
registry == <<handlers, regOrder>>
rpc == <<id, subscriber, error_subscriber, rpc_borrowed, issued>>

\* ---------------------------------------------------------------- helpers
RECURSIVE Orderings(_)
\* Every sequence that lists each element of S once.
Orderings(S) ==
    IF S = {} THEN {<<>>}
    ELSE UNION {{<<x>> \o s : s \in Orderings(S \ {x})} : x \in S}

\* Option::unwrap_or
unwrap_or(o, d) == IF o = None THEN d ELSE o[1]

\* ---------------------------------------------------------------- frames
\* serde_json::to_string(&Ping { ping: "ping" }): the one-key object {"ping":"ping"}
PingFrame == <<"ping", "ping">>
\* serde_json::to_string(&Subscribe { subscribe: handler }): {"subscribe":"<topic>"}
SubscribeFrame(t) == <<"subscribe", t>>

\* ------------------------------------------------------- transport (host)
\* A stale copy of the handle: the one the cell held before the last reconnect.
cell_before_retry == IF websocket > 1 THEN websocket - 1 ELSE websocket

\* self.core.websocket.borrow(), websocket.borrow(): the handle the shared
\* Rc<RefCell<WebSocket>> holds now; the facade, the pinger and the wired closures
\* all hold clones of that one cell.
cell == websocket

Live == {"Connecting", "Open", "Closing"}

\* WebSocket.send on handle h with ready states rs: it throws while Connecting,
\* transmits while Open and discards the data while Closing or Closed.
send_with_str(rs, h, frame) ==
    [h |-> h, frame |-> frame,
     res |-> IF rs[h] = "Connecting" THEN "throw"
             ELSE IF rs[h] = "Open" THEN "sent" ELSE "discard"]

\* WebSocket.close(code, reason) on a handle in state s: a connecting or open
\* handle starts closing, a closing or closed one is left as it is.
close_with_code(s) == IF s \in {"Connecting", "Open"} THEN "Closing" ELSE s

\* ----------------------------------------------------------------- Emitter
\* An on that keeps the callback a topic already has.
on_keeps_first(hs, t, cb) == IF hs[t] # NoHandler THEN hs ELSE [hs EXCEPT ![t] = cb]

\* Emitter::on: HashMap::insert
on(hs, t, cb) == [hs EXCEPT ![t] = cb]

\* Emitter::off
off(hs, t) == [hs EXCEPT ![t] = NoHandler]

\* Emitter::get_handlers_names: the keys of a HashMap, in an order the hasher picks.
get_handlers_names(hs) == Orderings({t \in DOMAIN hs : hs[t] # NoHandler})

\* An emit that runs every registered listener.
emit_to_all(hs, t, payload) ==
    LET names == CHOOSE o \in get_handlers_names(hs) : TRUE
    IN  [i \in 1..Len(names) |-> <<"listener", names[i], hs[names[i]], payload>>]

\* Emitter::emit: the listener invocations it makes (none when no handler is found).
emit(hs, t, payload) ==
    IF hs[t] # NoHandler THEN <<(<<"listener", t, hs[t], payload>>)>> ELSE <<>>

\* An invocation of a builder-supplied callback.
user(name) == <<(<<"user", name, "", "">>)>>

\* ------------------------------------------------------- ReconnectConfig
\* ReconnectConfig::reset
reset == FALSE

\* A schedule_reconnect that sets the timer twice.
schedule_reconnect_twice(ts, cb, timeout) ==
    ts \cup {[cb |-> cb, delay |-> timeout], [cb |-> cb, delay |-> 2 * timeout]}

\* A set_retry_cb that leaves the stored closure as it was.
set_retry_cb_keeps(cur, cb) == cur

\* ReconnectConfig::set_retry_cb: retry_closure.replace(cb)
set_retry_cb(cur, cb) == Some(cb)

\* WsCore::schedule_reconnect: setTimeout(closure, timeout)
schedule_reconnect(ts, cb, timeout) == ts \cup {[cb |-> cb, delay |-> timeout]}

\* A failure branch that returns without scheduling anything.
retry_on_failure_gives_up(ts, cb) == ts

\* build_retry_closure, the Err(_) branch: the timer table once the new retry
\* closure cb has been scheduled.
retry_on_failure(ts, cb) == schedule_reconnect(ts, cb, RECONNECT_DELAY)

\* ------------------------------------------------------------------ Pinger
\* Pinger::new: interval_id: Some(Rc::new(RefCell::new(0)))
Pinger_new == 0

\* A close_ping whose IntervalHandle never reaches clearInterval.
close_ping_leaks(ivs, interval) == ivs

\* Pinger::close_ping: IntervalHandle dropped at once, whose drop calls
\* window.clear_interval_with_handle(id).
close_ping(ivs, interval) == ivs \ {interval}

\* ------------------------------------------------- wiring (init_new_websocket)
\* WsCore::build_onopen returns Some(closure)
build_onopen == cfg.on_open \/ cfg.reconnect
\* WsCore::build_onclose returns Some(closure)
build_onclose == cfg.on_close \/ cfg.reconnect
\* WsCore::build_onerror returns Some(closure)
build_onerror == cfg.on_error

\* ------------------------------------------------------------------- Init
\* WsFactory::new, the builder options, WsFactory::build and WsCore::new: one
\* handle, connecting, its four callbacks wired and a fresh pinger.
Init ==
    /\ cfg \in [on_open : BOOLEAN, on_close : BOOLEAN, on_error : BOOLEAN,
                reconnect : BOOLEAN]
    /\ is_closing = FALSE
    /\ facade = "alive"
    /\ websocket = 1
    /\ readyState = <<"Connecting">>
    /\ interval_id = <<Pinger_new>>
    /\ intervals = {}
    /\ nIntervals = 0
    /\ timeouts = {}
    /\ retry_closure = None
    /\ nClosures = 0
    /\ is_reconnecting = FALSE
    /\ handlers = [t \in TopicNames |-> NoHandler]
    /\ regOrder = <<>>
    /\ closeSeen = {}
    /\ act = "build"
    /\ arg = <<>>
    /\ out = <<>>
    /\ closes = <<>>
    /\ cbs = <<>>
    /\ panicked = FALSE
    /\ id = 0
    /\ subscriber = <<>>
    /\ error_subscriber = <<>>
    /\ rpc_borrowed = FALSE
    /\ issued = <<>>
    /\ reading = <<>>

\* ------------------------------------------------------- transport events
\* The closure build_onopen wires, run for the open event of handle h.  Its sends
\* go to the handle the cell holds, which is the one that has just opened, so
\* the unwrap() of the subscribe sends finds no error.
onopen_closure(h) ==
    /\ is_reconnecting' = IF cfg.reconnect THEN reset ELSE is_reconnecting
    /\ \E names \in get_handlers_names(handlers) :
          out' = <<send_with_str(readyState', cell, PingFrame)>>
                 \o [i \in 1..Len(names) |->
                        send_with_str(readyState', cell, SubscribeFrame(names[i]))]
    /\ nIntervals' = nIntervals + 1
    /\ intervals' = intervals \cup {nIntervals + 1}
    /\ interval_id' = [interval_id EXCEPT ![h] = nIntervals + 1]
    /\ cbs' = (IF cfg.on_open THEN user("on_open") ELSE <<>>)
              \o emit(handlers, "open", "open")

\* The transport reports handle h open.
onopen(h) ==
    /\ readyState[h] = "Connecting"
    /\ readyState' = [readyState EXCEPT ![h] = "Open"]
    /\ act' = "onopen"
    /\ panicked' = FALSE
    /\ UNCHANGED <<rpc, reading>>
    /\ arg' = <<>>
    /\ IF build_onopen
       THEN onopen_closure(h)
       ELSE /\ out' = <<>>
            /\ cbs' = <<>>
            /\ UNCHANGED <<pingers, is_reconnecting>>
    /\ closes' = <<>>
    /\ UNCHANGED <<cfg, is_closing, facade, websocket, retries, registry, closeSeen>>

\* A close handler that asks for a retry whatever the builder said.
retry_always == TRUE

\* The closure of build_onclose: if let Some(reconnect_config) = factory.reconnect
retry_wanted == cfg.reconnect

\* The closure build_onclose wires, run for the close event of handle h.
onclose_closure(h) ==
    /\ IF retry_wanted
       THEN /\ nClosures < MaxRetries
            /\ nClosures' = nClosures + 1
            /\ timeouts' = schedule_reconnect(timeouts, nClosures + 1, RECONNECT_DELAY)
            /\ retry_closure' = set_retry_cb(retry_closure, nClosures + 1)
       ELSE UNCHANGED retries
    /\ intervals' = close_ping(intervals, interval_id[h])
    /\ cbs' = emit(handlers, "close", "close")
              \o (IF cfg.on_close THEN user("on_close") ELSE <<>>)

\* The transport reports handle h closed.
onclose(h) ==
    /\ readyState[h] \in Live
    /\ readyState' = [readyState EXCEPT ![h] = "Closed"]
    /\ act' = "onclose"
    /\ panicked' = FALSE
    /\ UNCHANGED <<rpc, reading>>
    /\ arg' = <<>>
    /\ IF build_onclose
       THEN onclose_closure(h)
       ELSE /\ cbs' = <<>>
            /\ UNCHANGED <<intervals, retries>>
    /\ out' = <<>>
    /\ closes' = <<>>
    /\ UNCHANGED <<cfg, is_closing, facade, websocket, interval_id, nIntervals,
                   is_reconnecting, registry, closeSeen>>

\* The transport reports an error on handle h; isString: event.error() is a string.
onerror(h, isString) ==
    /\ readyState[h] \in Live
    /\ act' = "onerror"
    /\ panicked' = FALSE
    /\ UNCHANGED <<rpc, reading>>
    /\ arg' = <<>>
    /\ cbs' = IF build_onerror
              THEN (IF isString THEN emit(handlers, "error", "message") ELSE <<>>)
                   \o user("on_error")
              ELSE <<>>
    /\ out' = <<>>
    /\ closes' = <<>>
    /\ UNCHANGED <<cfg, is_closing, facade, conn, pingers, retries, is_reconnecting,
                   registry, closeSeen>>

\* ------------------------------------------------------------ timer tasks
\* A retry that wires the new handle to an emitter of its own.
Emitter_new(hs) == [t \in DOMAIN hs |-> NoHandler]

\* build_retry_closure: init_new_websocket(factory.clone(), ..) wires the new
\* handle to the Rc<WsFactory> of the first one, so to the same emitter.
factory_emitter(hs) == hs

\* A pending retry fires and WebSocket::new succeeds: the cell gets the new handle,
\* init_new_websocket wires it with a fresh pinger.
retry_ok(t) ==
    /\ t \in timeouts
    /\ Len(readyState) < MaxHandles
    /\ timeouts' = timeouts \ {t}
    /\ readyState' = Append(readyState, "Connecting")
    /\ websocket' = Len(readyState) + 1
    /\ interval_id' = Append(interval_id, Pinger_new)
    /\ act' = "retry_ok"
    /\ panicked' = FALSE
    /\ UNCHANGED <<rpc, reading>>
    /\ arg' = <<>>
    /\ out' = <<>>
    /\ closes' = <<>>
    /\ cbs' = <<>>
    /\ handlers' = factory_emitter(handlers)
    /\ UNCHANGED <<cfg, is_closing, facade, intervals, nIntervals, retry_closure,
                   nClosures, is_reconnecting, regOrder, closeSeen>>

\* A pending retry fires and WebSocket::new fails: another retry is scheduled.
retry_err(t) ==
    /\ t \in timeouts
    /\ nClosures < MaxRetries
    /\ nClosures' = nClosures + 1
    /\ timeouts' = retry_on_failure(timeouts \ {t}, nClosures + 1)
    /\ retry_closure' = set_retry_cb(retry_closure, nClosures + 1)
    /\ act' = "retry_err"
    /\ panicked' = FALSE
    /\ UNCHANGED <<rpc, reading>>
    /\ arg' = <<>>
    /\ out' = <<>>
    /\ closes' = <<>>
    /\ cbs' = <<>>
    /\ UNCHANGED <<cfg, is_closing, facade, conn, pingers, is_reconnecting, registry,
                   closeSeen>>

\* Pinger::ping's interval closure: one ping on the handle the cell holds now.
tick(i) ==
    /\ i \in intervals
    /\ act' = "tick"
    /\ panicked' = FALSE
    /\ UNCHANGED <<rpc, reading>>
    /\ arg' = <<>>
    /\ out' = <<send_with_str(readyState, cell, PingFrame)>>
    /\ closes' = <<>>
    /\ cbs' = <<>>
    /\ UNCHANGED <<cfg, is_closing, facade, conn, pingers, retries, is_reconnecting,
                   registry, closeSeen>>

\* ----------------------------------------------------------------- facade
\* Websocket::add_listener
add_listener(t, cb) ==
    /\ facade = "alive"
    /\ handlers' = on(handlers, t, cb)
    /\ regOrder' = IF t \in {regOrder[i] : i \in 1..Len(regOrder)}
                   THEN regOrder
                   ELSE Append(regOrder, t)
    /\ act' = "add_listener"
    /\ panicked' = FALSE
    /\ UNCHANGED <<rpc, reading>>
    /\ arg' = <<t, cb>>
    /\ out' = <<>>
    /\ closes' = <<>>
    /\ cbs' = <<>>
    /\ UNCHANGED <<cfg, is_closing, facade, conn, pingers, retries, is_reconnecting,
                   closeSeen>>

\* Websocket::send(WsMessage::Text(..))
send(frame) ==
    /\ facade = "alive"
    /\ act' = "send"
    /\ panicked' = FALSE
    /\ UNCHANGED <<rpc, reading>>
    /\ arg' = <<frame>>
    /\ out' = <<send_with_str(readyState, cell, frame)>>
    /\ closes' = <<>>
    /\ cbs' = <<>>
    /\ UNCHANGED <<cfg, is_closing, facade, conn, pingers, retries, is_reconnecting,
                   registry, closeSeen>>

\* WebSocket.url on handle h: every handle is constructed from factory.url.
host_url(h) == [h |-> h, frame |-> <<"url">>, res |-> "factory.url"]

\* Websocket::url
url ==
    /\ facade = "alive"
    /\ act' = "url"
    /\ panicked' = FALSE
    /\ UNCHANGED <<rpc, reading>>
    /\ arg' = <<>>
    /\ out' = <<host_url(cell)>>
    /\ closes' = <<>>
    /\ cbs' = <<>>
    /\ UNCHANGED <<cfg, is_closing, facade, conn, pingers, retries, is_reconnecting,
                   registry, closeSeen>>

\* WebSocket.readyState on handle h: the u16 code of its ready state.
host_ready_state(rs, h) ==
    CASE rs[h] = "Connecting" -> 0
      [] rs[h] = "Open" -> 1
      [] rs[h] = "Closing" -> 2
      [] rs[h] = "Closed" -> 3

\* impl From<u16> for ReadyState
ReadyState_from(state) ==
    CASE state = 0 -> "Connecting"
      [] state = 1 -> "Open"
      [] state = 2 -> "Closing"
      [] state = 3 -> "Closed"
      [] OTHER -> <<"Other", state>>

\* Websocket::ready_state
ready_state ==
    /\ facade = "alive"
    /\ act' = "ready_state"
    /\ panicked' = FALSE
    /\ UNCHANGED <<rpc, reading>>
    /\ arg' = <<>>
    /\ out' = <<[h |-> cell, frame |-> <<"ready_state">>,
                 res |-> ReadyState_from(host_ready_state(readyState, cell))]>>
    /\ closes' = <<>>
    /\ cbs' = <<>>
    /\ UNCHANGED <<cfg, is_closing, facade, conn, pingers, retries, is_reconnecting,
                   registry, closeSeen>>

\* WsCore::close: the transport close call it makes on the handle the cell holds.
core_close(code, reason) == [h |-> cell, code |-> code, reason |-> reason]

\* The close calls Websocket::close(self, code, reason) makes: its own, then the
\* one of Drop for Websocket, which runs when the consumed facade goes out of scope.
close_calls(code, reason) ==
    <<core_close(unwrap_or(code, NORMAL_CLOSURE), reason),
      core_close(NORMAL_CLOSURE, None)>>

\* What every path into WsCore::close does to the state.
closing ==
    /\ is_closing' = TRUE
    /\ readyState' = [readyState EXCEPT ![cell] = close_with_code(@)]
    /\ closeSeen' = closeSeen \cup {t.cb : t \in timeouts}
    /\ out' = <<>>
    /\ cbs' = <<>>
    /\ UNCHANGED <<cfg, websocket, pingers, retries, is_reconnecting, registry>>

\* Websocket::close(self, code, reason)
close(code, reason) ==
    /\ facade = "alive"
    /\ facade' = "dropped"
    /\ act' = "close"
    /\ panicked' = FALSE
    /\ UNCHANGED <<rpc, reading>>
    /\ arg' = <<code, reason>>
    /\ closes' = close_calls(code, reason)
    /\ closing

\* Websocket::close_from_drop(&mut self)
close_from_drop ==
    /\ facade = "alive"
    /\ facade' = "alive"
    /\ act' = "close_from_drop"
    /\ panicked' = FALSE
    /\ UNCHANGED <<rpc, reading>>
    /\ arg' = <<>>
    /\ closes' = <<core_close(NORMAL_CLOSURE, None)>>
    /\ closing

\* Drop for Websocket, the facade going out of scope without a close.
drop ==
    /\ facade = "alive"
    /\ facade' = "dropped"
    /\ act' = "drop"
    /\ panicked' = FALSE
    /\ UNCHANGED <<rpc, reading>>
    /\ arg' = <<>>
    /\ closes' = <<core_close(NORMAL_CLOSURE, None)>>
    /\ closing

\* ------------------------------------------------------------------- Next
Next ==
    \/ \E h \in 1..Len(readyState) : onopen(h)
    \/ \E h \in 1..Len(readyState) : onclose(h)
    \/ \E h \in 1..Len(readyState), isString \in BOOLEAN : onerror(h, isString)
    \/ \E t \in timeouts : retry_ok(t)
    \/ \E t \in timeouts : retry_err(t)
    \/ \E i \in intervals : tick(i)
    \/ \E t \in Topics, cb \in Callbacks : add_listener(t, cb)
    \/ send(AppFrame)
    \/ url
    \/ ready_state
    \/ \E code \in CloseCodes, reason \in CloseReasons : close(code, reason)
    \/ close_from_drop
    \/ drop

Spec == Init /\ [][Next]_vars

\* Timers fire and WebSocket::new eventually succeeds; a transport that is
\* connecting again and again eventually opens; a transport that close() has put
\* into Closing completes its closing handshake.
FairSpec ==
    /\ Spec
    /\ WF_vars(\E t \in timeouts : retry_ok(t))
    /\ SF_vars(\E h \in 1..Len(readyState) : onopen(h))
    /\ WF_vars(\E h \in 1..Len(readyState) : readyState[h] = "Closing" /\ onclose(h))

\* The client as WsFactory::new().build() leaves it.
DefaultInit == Init /\ cfg = DefaultCfg

\* ----------------------------------------------------------- RPCSubscriber
\* The decimal numerals str::parse::<u64> accepts, Numerals[n + 1] for the number n.
Numerals == <<"0", "1", "2", "3">>

\* str::parse::<u64>: Some(n) for Ok(n), None for Err(_).
parse_u64(x) ==
    IF \E k \in 1..Len(Numerals) : Numerals[k] = x
    THEN Some((CHOOSE k \in 1..Len(Numerals) : Numerals[k] = x) - 1)
    ELSE None

\* serde_json::Value::to_string: the JSON text of a value.
to_string(v) == <<"json", v>>

\* A counter that hands out the same id again.
fetch_add_stuck(n) == n

\* AtomicUsize::fetch_add(1, AcqRel): the counter afterwards.  It wraps at 2^32 on
\* wasm32; the two boxed closures prepare_rpc_request stores with every id exhaust
\* the 4 GiB address space first, so the model never has to wrap.
fetch_add(n) == n + 1

\* RPCSubscriber::build_map_request / build_vec_request / build_none_request:
\* Call::MethodCall { jsonrpc: V2, method, params, id: Id::Num(id as u64) }
build_request(n, method, params) == <<"jsonrpc", method, params, n>>

\* RPCSubscriber::set_handler: HashMap::insert
set_handler(subs, request_id, handler) ==
    [k \in DOMAIN subs \cup {request_id} |->
        IF k = request_id THEN handler ELSE subs[k]]

\* RPCSubscriber::set_error_handler: HashMap::insert
set_error_handler(subs, request_id, handler) ==
    [k \in DOMAIN subs \cup {request_id} |->
        IF k = request_id THEN handler ELSE subs[k]]

\* RPCSubscriber::get_handler: HashMap::get
get_handler(subs, request_id) ==
    IF request_id \in DOMAIN subs THEN Some(subs[request_id]) ELSE None

\* RPCSubscriber::get_error_handler: HashMap::get
get_error_handler(subs, request_id) ==
    IF request_id \in DOMAIN subs THEN Some(subs[request_id]) ELSE None

\* get_response, the match on the Id of the envelope: Id::Num(id) => Some(id),
\* Id::Str(s) => Some(s.parse::<u64>().unwrap()), which panics when the parse
\* fails, Id::Null => None.
response_id(i) ==
    CASE i[1] = "Num" -> [panic |-> FALSE, id |-> Some(i[2])]
      [] i[1] = "Str" -> [panic |-> parse_u64(i[2]) = None, id |-> parse_u64(i[2])]
      [] OTHER -> [panic |-> FALSE, id |-> None]

\* RPCSubscriber::get_response: Ok(RPCResponse { id, result }) for a success,
\* Err(RpcError { id, msg }) for a failure, for a batch and for a text that is no
\* response.
get_response(m) ==
    CASE m.kind = "success" ->
            [panic |-> response_id(m.id).panic, ok |-> TRUE,
             id |-> response_id(m.id).id, val |-> m.val]
      [] m.kind = "failure" ->
            [panic |-> response_id(m.id).panic, ok |-> FALSE,
             id |-> response_id(m.id).id, val |-> m.val]
      [] m.kind = "batch" ->
            [panic |-> FALSE, ok |-> FALSE, id |-> None, val |-> "this is batch response"]
      [] OTHER ->
            [panic |-> FALSE, ok |-> FALSE, id |-> None, val |-> "not a response"]

\* --------------------------------------------------------- inbound messages
\* How a message handler ends: the callbacks it invoked, whether it panicked, and
\* whether the RefCell of the RPCSubscriber is mutably borrowed afterwards.
Done(invoked) == [cbs |-> invoked, panicked |-> FALSE, borrowed |-> rpc_borrowed]

\* A panic while rpc_subscriber_ref is alive, or of borrow_mut() itself.  The wasm32
\* target aborts on panic: no destructor runs, the RefMut is never released.
Trap == [cbs |-> <<>>, panicked |-> TRUE, borrowed |-> TRUE]

\* A panic outside process_rpc_message: no RefCell is borrowed at that point.
Panic == [cbs |-> <<>>, panicked |-> TRUE, borrowed |-> rpc_borrowed]

\* WsCore::process_rpc_message
process_rpc_message(m) ==
    IF rpc_borrowed THEN Trap
    ELSE LET r == get_response(m) IN
         IF r.panic THEN Trap
         ELSE IF r.id = None THEN Done(<<>>)
         ELSE LET handler == IF r.ok THEN get_handler(subscriber, r.id[1])
                             ELSE get_error_handler(error_subscriber, r.id[1])
              IN  IF handler = None THEN Done(<<>>)
                  ELSE Done(<< <<"rpc", r.id[1], handler[1],
                                 IF r.ok THEN to_string(r.val) ELSE r.val>> >>)

\* A router that hands every text frame to the RPC dispatch.
process_text_message_as_rpc(m) == process_rpc_message(m)

\* WsCore::process_text_message: serde_json::from_str(..).expect(..) panics on a
\* text that is no JSON, payload.find(":").unwrap() on one without a ':'; the text
\* before the first ':' names the handler.
process_text_message(m) ==
    IF m.kind \in {"garbage", "nokey"} THEN Panic
    ELSE IF m.key = "jsonrpc" THEN process_rpc_message(m)
    ELSE Done(emit(handlers, m.key, to_string(m.val)))

\* WsCore::process_array_message: serde_json::from_slice(..).expect(..) panics on
\* bytes that are no JSON (bytes that are no UTF-8 among them, so the Err branch
\* of str::from_utf8 is never taken), find(":").unwrap() on JSON without a ':'.
process_array_message(m) ==
    IF m.kind \in {"garbage", "nokey"} THEN Panic
    ELSE IF m.key = "jsonrpc" THEN process_rpc_message(m)
    ELSE Done(emit(handlers, m.key, to_string(m.val)))

\* The closure build_onmessage wires, run for a message event of handle h whose
\* data is a string, an ArrayBuffer or a Blob.  A Blob goes to a new FileReader
\* (process_blob_message) and is processed when its read has ended.
onmessage(h, data, m) ==
    /\ readyState[h] = "Open"
    /\ act' = "onmessage"
    /\ arg' = <<data, m>>
    /\ IF data = "blob"
       THEN /\ Len(reading) < MaxReads
            /\ reading' = Append(reading, m)
            /\ cbs' = <<>>
            /\ panicked' = FALSE
            /\ UNCHANGED rpc_borrowed
       ELSE LET o == IF data = "text" THEN process_text_message(m)
                     ELSE process_array_message(m)
            IN  /\ cbs' = o.cbs
                /\ panicked' = o.panicked
                /\ rpc_borrowed' = o.borrowed
                /\ UNCHANGED reading
    /\ out' = <<>>
    /\ closes' = <<>>
    /\ UNCHANGED <<cfg, is_closing, facade, conn, pingers, retries, is_reconnecting,
                   registry, closeSeen, id, subscriber, error_subscriber, issued>>

\* The onloadend closure of process_blob_message: the read of the k-th pending
\* blob has ended, its bytes go to process_array_message.
onloadend(k) ==
    /\ k \in 1..Len(reading)
    /\ act' = "onloadend"
    /\ arg' = <<"blob", reading[k], k>>
    /\ reading' = [i \in 1..(Len(reading) - 1) |->
                      IF i < k THEN reading[i] ELSE reading[i + 1]]
    /\ LET o == process_array_message(reading[k])
       IN  /\ cbs' = o.cbs
           /\ panicked' = o.panicked
           /\ rpc_borrowed' = o.borrowed
    /\ out' = <<>>
    /\ closes' = <<>>
    /\ UNCHANGED <<cfg, is_closing, facade, conn, pingers, retries, is_reconnecting,
                   registry, closeSeen, id, subscriber, error_subscriber, issued>>

\* ----------------------------------------------------------- RPC requests
\* Websocket::prepare_rpc_request followed by the send of the request frame: the
\* borrow_mut() of the RPCSubscriber panics when the RefCell is still borrowed;
\* otherwise the id is taken, both callbacks are stored under it and the frame is
\* handed to the transport, whose error the callers drop.
rpc_request(params, callback, error_callback, binary) ==
    /\ facade = "alive"
    /\ Len(issued) < MaxRequests
    /\ arg' = <<params, callback, error_callback>>
    /\ IF rpc_borrowed
       THEN /\ panicked' = TRUE
            /\ out' = <<>>
            /\ UNCHANGED rpc
       ELSE /\ panicked' = FALSE
            /\ id' = fetch_add(id)
            /\ subscriber' = set_handler(subscriber, id, callback)
            /\ error_subscriber' = set_error_handler(error_subscriber, id, error_callback)
            /\ issued' = Append(issued, [id |-> id, h |-> websocket])
            /\ out' = <<send_with_str(readyState, cell,
                            IF binary THEN <<"bytes", build_request(id, "method", params)>>
                            ELSE build_request(id, "method", params))>>
            /\ UNCHANGED rpc_borrowed
    /\ closes' = <<>>
    /\ cbs' = <<>>
    /\ UNCHANGED <<cfg, is_closing, facade, conn, pingers, retries, is_reconnecting,
                   registry, closeSeen, reading>>

\* Websocket::send_text_rpc
send_text_rpc(params, callback, error_callback) ==
    /\ act' = "send_text_rpc"
    /\ rpc_request(params, callback, error_callback, FALSE)

\* Websocket::send_binary_rpc
send_binary_rpc(params, callback, error_callback) ==
    /\ act' = "send_binary_rpc"
    /\ rpc_request(params, callback, error_callback, TRUE)

\* The transport events of a client that reconnects.
Reconnects ==
    \/ \E h \in 1..Len(readyState) : onopen(h)
    \/ \E h \in 1..Len(readyState) : onclose(h)
    \/ \E t \in timeouts : retry_ok(t)

\* RPC requests and the responses to them, over a connection that drops and
\* reconnects.
RpcNext ==
    \/ Reconnects
    \/ \E params \in RpcParams, c \in RpcCallbacks : send_text_rpc(params, c[1], c[2])
    \/ \E params \in RpcParams, c \in RpcCallbacks : send_binary_rpc(params, c[1], c[2])
    \/ \E h \in 1..Len(readyState), data \in SyncData, m \in RpcInbound :
          onmessage(h, data, m)

RpcSpec == DefaultInit /\ [][RpcNext]_vars

\* Topic messages in every representation, over a connection that drops and
\* reconnects.
MsgNext ==
    \/ Reconnects
    \/ \E t \in Topics, cb \in Callbacks : add_listener(t, cb)
    \/ \E h \in 1..Len(readyState), data \in AllData, m \in EventInbound :
          onmessage(h, data, m)
    \/ \E k \in 1..Len(reading) : onloadend(k)

MsgSpec == DefaultInit /\ [][MsgNext]_vars

\* The whole client: listeners, RPC requests, every kind of inbound text and
\* ArrayBuffer payload, over a connection that drops, fails to reconnect and
\* reconnects.
ClientNext ==
    \/ Reconnects
    \/ \E t \in timeouts : retry_err(t)
    \/ \E t \in Topics, cb \in Callbacks : add_listener(t, cb)
    \/ \E params \in RpcParams, c \in RpcCallbacks : send_text_rpc(params, c[1], c[2])
    \/ \E params \in RpcParams, c \in RpcCallbacks : send_binary_rpc(params, c[1], c[2])
    \/ \E h \in 1..Len(readyState), data \in SyncData, m \in ClientInbound :
          onmessage(h, data, m)

ClientSpec == DefaultInit /\ [][ClientNext]_vars

\* ------------------------------------------- callbacks that call the client
\* What an RPC callback does with the client while it runs.
CallsBack == {"send_text_rpc", "add_listener"}

\* The onmessage closure for a response envelope whose callback calls the client
\* back.  process_rpc_message invokes the callback while rpc_subscriber_ref, its
\* borrow_mut() of the RPCSubscriber, is alive: a send_text_rpc from the callback
\* panics at the borrow_mut() of prepare_rpc_request and the RefCell stays
\* borrowed; an add_listener borrows the emitter, which is free, and registers.
onmessage_reentrant(h, data, m, call) ==
    /\ readyState[h] = "Open"
    /\ facade = "alive"
    /\ process_rpc_message(m).cbs # <<>>
    /\ act' = "onmessage_reentrant"
    /\ arg' = <<data, m, call>>
    /\ cbs' = process_rpc_message(m).cbs
    /\ IF call = "send_text_rpc"
       THEN /\ panicked' = TRUE
            /\ rpc_borrowed' = TRUE
            /\ UNCHANGED registry
       ELSE /\ panicked' = FALSE
            /\ handlers' = on(handlers, "trades", "cb1")
            /\ regOrder' = IF "trades" \in {regOrder[i] : i \in 1..Len(regOrder)}
                           THEN regOrder
                           ELSE Append(regOrder, "trades")
            /\ UNCHANGED rpc_borrowed
    /\ out' = <<>>
    /\ closes' = <<>>
    /\ UNCHANGED <<cfg, is_closing, facade, conn, pingers, retries, is_reconnecting,
                   closeSeen, id, subscriber, error_subscriber, issued, reading>>

\* RPC requests whose callbacks call the client back when their response arrives.
ReentrantNext ==
    \/ RpcNext
    \/ \E h \in 1..Len(readyState), data \in SyncData, m \in RpcInbound,
          call \in CallsBack : onmessage_reentrant(h, data, m, call)

ReentrantSpec == DefaultInit /\ [][ReentrantNext]_vars

\* ------------------------------------------------ the Emitter, called directly
\* A call of Emitter::off(t) on the client's emitter.
Emitter_off(t) ==
    /\ handlers' = off(handlers, t)
    /\ act' = "off"
    /\ arg' = <<t>>
    /\ out' = <<>>
    /\ closes' = <<>>
    /\ cbs' = <<>>
    /\ panicked' = FALSE
    /\ UNCHANGED <<cfg, is_closing, facade, conn, pingers, retries, is_reconnecting,
                   regOrder, closeSeen, rpc, reading>>

\* A call of Emitter::emit(t, &Payload::Data(payload)) on the client's emitter.
Emitter_emit(t, payload) ==
    /\ act' = "emit"
    /\ arg' = <<t, payload>>
    /\ cbs' = emit(handlers, t, payload)
    /\ out' = <<>>
    /\ closes' = <<>>
    /\ panicked' = FALSE
    /\ UNCHANGED <<cfg, is_closing, facade, conn, pingers, retries, is_reconnecting,
                   registry, closeSeen, rpc, reading>>

EmitterNext ==
    \/ \E t \in EmitterTopics, cb \in EmitterCallbacks : add_listener(t, cb)
    \/ \E t \in EmitterTopics : Emitter_off(t)
    \/ \E t \in EmitterTopics, payload \in EmitPayloads : Emitter_emit(t, payload)

EmitterSpec == DefaultInit /\ [][EmitterNext]_vars

\* ------------------------------------------- listeners on the local events
\* An application that listens to "open", "close" and "error", in every builder
\* configuration, over a connection that drops and reconnects.
EventsNext ==
    \/ \E t \in LocalEvents, cb \in Callbacks : add_listener(t, cb)
    \/ \E h \in 1..Len(readyState) : onopen(h)
    \/ \E h \in 1..Len(readyState) : onclose(h)
    \/ \E h \in 1..Len(readyState), isString \in BOOLEAN : onerror(h, isString)
    \/ \E t \in timeouts : retry_ok(t)

EventsSpec == Init /\ [][EventsNext]_vars

\* ----------------------------------------------------------------- claims
\* The frames of the send calls the last step made, in order.
Frames == [i \in 1..Len(out) |-> out[i].frame]
IsSubscribe(f) == f[1] = "subscribe"
IsPing(f) == f = PingFrame

\* The bounds of the model stop the reconnect loop here.
Exhausted ==
    \/ nClosures = MaxRetries
    \/ Len(readyState) = MaxHandles /\ readyState[websocket] = "Closed"

\* C1: once close(code, reason) has set the closing flag, the on-close callback
\* schedules no reconnect retry, and no new transport handle is constructed.
C1_NoReconnectAfterClose ==
    [][is_closing =>
          /\ (act' = "onclose" => timeouts' \subseteq timeouts)
          /\ Len(readyState') = Len(readyState)]_vars

\* C2: a retry that was pending when close(code, reason) was called is cancelled:
\* when its time comes it constructs no transport handle and schedules no retry.
C2_PendingRetryCancelledByClose ==
    [][\A t \in timeouts :
          (t.cb \in closeSeen /\ t \notin timeouts')
              => /\ Len(readyState') = Len(readyState)
                 /\ timeouts' \subseteq timeouts]_vars

\* C3: at most one repeating heartbeat task is active in every reachable state,
\* and an open that follows a reconnect leaves exactly one.
C3_AtMostOneHeartbeat ==
    /\ Cardinality(intervals) <= 1
    /\ (act = "onopen" /\ Len(readyState) > 1 => Cardinality(intervals) = 1)

\* A reconnected transport has opened after an earlier heartbeat had run.
C3_Witness ==
    /\ act = "onopen"
    /\ Len(readyState) > 1
    /\ nIntervals = 2
    /\ intervals = {2}

\* C4: whenever the transport reports open, in every builder configuration, one
\* ping frame is sent at once on the current handle and one heartbeat task starts.
C4_PingAndHeartbeatOnOpen ==
    act = "onopen" =>
        /\ Len(SelectSeq(Frames, IsPing)) = 1
        /\ out[1] = [h |-> websocket, frame |-> PingFrame, res |-> "sent"]
        /\ intervals = {interval_id[websocket]}

\* C5: whenever the transport reports closed, in every builder configuration, the
\* heartbeat task is cancelled, so none ticks while the current handle is closed.
C5_HeartbeatCancelledOnClose ==
    readyState[websocket] = "Closed" => intervals = {}

\* C6: on every open, one subscribe frame is sent for each topic in the registry
\* and none for a topic that is not in it.
C6_SubscribeOncePerTopic ==
    act = "onopen" =>
        \A t \in TopicNames :
            Len(SelectSeq(Frames, LAMBDA f : f = SubscribeFrame(t)))
                = IF handlers[t] # NoHandler THEN 1 ELSE 0

\* C7: with topics registered, the frames sent on open are the one ping frame and
\* the subscribe frames in the order the topics were registered, all of them sent
\* by the open step itself.  Stated for the configurations that wire an on-open
\* closure.
C7_SubscribesInRegistrationOrder ==
    (act = "onopen" /\ build_onopen /\ regOrder # <<>>) =>
        /\ SelectSeq(Frames, IsSubscribe)
              = [i \in 1..Len(regOrder) |-> SubscribeFrame(regOrder[i])]
        /\ Len(SelectSeq(Frames, IsPing)) = 1
        /\ Len(out) = Len(regOrder) + 1
        /\ \A i \in 1..Len(out) : out[i].res = "sent"

\* C8: Websocket::close(code, reason) makes the transport's close receive that
\* code (1000 when absent) and that reason, and no close call with other arguments.
C8_CloseCallArguments ==
    act = "close" =>
        /\ Len(closes) >= 1
        /\ closes[1] = [h |-> websocket,
                        code |-> unwrap_or(arg[1], NORMAL_CLOSURE),
                        reason |-> arg[2]]
        /\ \A i \in 1..Len(closes) : closes[i] = closes[1]

\* C9: with reconnection enabled a transport close schedules exactly one retry
\* task; at most one retry task is ever pending, and the stored retry closure is
\* the one of that task.
C9_OneRetryPerClose ==
    /\ Cardinality(timeouts) <= 1
    /\ \A t \in timeouts : retry_closure = Some(t.cb)
    /\ (act = "onclose" /\ cfg.reconnect
           => timeouts = {[cb |-> nClosures, delay |-> RECONNECT_DELAY]})

\* The second close of a client that reconnects.
C9_Witness ==
    /\ act = "onclose"
    /\ cfg.reconnect
    /\ Len(readyState) = 2
    /\ Cardinality(timeouts) = 1
    /\ retry_closure = Some(nClosures)

\* C10: a retry whose transport construction fails schedules another retry after
\* the same fixed delay; and with the timers firing, construction eventually
\* succeeding and the transport then opening, a closed connection with
\* reconnection enabled is open again (or the model's bounds are used up).
C10_RetryUntilOpen ==
    /\ [](act = "retry_err"
            => timeouts = {[cb |-> nClosures, delay |-> RECONNECT_DELAY]})
    /\ ((cfg.reconnect /\ readyState[websocket] = "Closed" /\ ~Exhausted)
            ~> (readyState[websocket] = "Open" \/ Exhausted))

\* A transport is open again after a close and at least one failed retry.
C10_Witness ==
    /\ readyState[websocket] = "Open"
    /\ Len(readyState) >= 2
    /\ nClosures >= Len(readyState)
    /\ act = "onopen"

\* C11: in every reachable state at most one transport handle is connecting or
\* open, and every handle the cell no longer holds is closed, so a retry has
\* constructed its handle only after the one it replaces was closed.
C11_AtMostOneLiveHandle ==
    /\ Cardinality({h \in 1..Len(readyState) : readyState[h] \in {"Connecting", "Open"}}) <= 1
    /\ \A h \in 1..Len(readyState) : h # websocket => readyState[h] = "Closed"

\* A second retry has just constructed the third handle.
C11_Witness ==
    /\ act = "retry_ok"
    /\ Len(readyState) = 3
    /\ readyState = <<"Closed", "Closed", "Connecting">>

\* C12: every transport call of a step (a facade send, close, url or ready_state,
\* a heartbeat tick, the ping and subscribe frames of an open) is made on the
\* handle the cell holds, after a reconnect too, and a facade read reports that
\* handle's state.
C12_CallsActOnCurrentHandle ==
    /\ \A i \in 1..Len(out) : out[i].h = websocket
    /\ \A i \in 1..Len(closes) : closes[i].h = websocket
    /\ (act = "ready_state" => out[1].res = readyState[websocket])

\* A facade send transmitted on the handle of a reconnect, the replaced one closed.
C12_Witness ==
    /\ act = "send"
    /\ websocket = 2
    /\ readyState = <<"Closed", "Open">>
    /\ out = <<[h |-> 2, frame |-> AppFrame, res |-> "sent"]>>

\* C13: the ids prepare_request returns on one client are strictly increasing, so
\* none is returned twice, whatever closes and reconnects happen in between.
C13_RequestIdsStrictlyIncrease ==
    \A i, j \in 1..Len(issued) : i < j => issued[i].id < issued[j].id

\* Two requests, one prepared on the first handle and one on the handle of a reconnect.
C13_Witness ==
    /\ act \in {"send_text_rpc", "send_binary_rpc"}
    /\ Len(issued) = 2
    /\ issued[1].h = 1
    /\ issued[2].h = 2
    /\ issued[2].id = 1

\* The envelope a message step was given, when it is a JSON-RPC envelope.
IsRpcStep == act = "onmessage" /\ arg[2].key = "jsonrpc"

\* C14: a success envelope with the id i of a registered request invokes the
\* success callback stored for i, once, with the result as JSON text and nothing
\* else; a failure envelope invokes the error callback stored for i with the
\* error message and nothing else.
C14_ResponseInvokesItsCallback ==
    (IsRpcStep /\ arg[2].id[1] = "Num" /\ arg[2].id[2] \in DOMAIN subscriber) =>
        /\ arg[2].kind = "success"
              => cbs = << <<"rpc", arg[2].id[2], subscriber[arg[2].id[2]],
                           to_string(arg[2].val)>> >>
        /\ arg[2].kind = "failure"
              => cbs = << <<"rpc", arg[2].id[2], error_subscriber[arg[2].id[2]],
                           arg[2].val>> >>

\* C15: a response envelope whose id is null, or a number no request was given,
\* invokes no callback, raises no error and leaves both tables as they were.
C15_UnknownIdIsIgnored ==
    [][(act' = "onmessage" /\ arg'[2].key = "jsonrpc"
            /\ \/ arg'[2].id = Null
               \/ arg'[2].id[1] = "Num" /\ arg'[2].id[2] \notin DOMAIN subscriber)
          => /\ cbs' = <<>>
             /\ ~panicked'
             /\ UNCHANGED <<subscriber, error_subscriber>>]_vars

\* C16: a response whose id is a string resolves as the number the string spells;
\* a string that spells no number is rejected without a panic.
C16_StringIdsParsedOrRejected ==
    (IsRpcStep /\ arg[2].id[1] = "Str") =>
        /\ ~panicked
        /\ \A n \in DOMAIN subscriber :
              parse_u64(arg[2].id[2]) = Some(n)
                  => cbs = << <<"rpc", n,
                               IF arg[2].kind = "success" THEN subscriber[n]
                               ELSE error_subscriber[n],
                               IF arg[2].kind = "success" THEN to_string(arg[2].val)
                               ELSE arg[2].val>> >>

\* C17: once a response has been dispatched to the callback of id i, the tables
\* hold no entry for i any more (so a second response with that id finds none).
C17_EntryRemovedAfterDispatch ==
    (IsRpcStep /\ cbs # <<>>) =>
        /\ cbs[1][2] \notin DOMAIN subscriber
        /\ cbs[1][2] \notin DOMAIN error_subscriber

\* C18: emit(t, p) invokes the callback registered for t exactly once, with p, and
\* no callback of another topic; for a topic with no callback it invokes nothing
\* and does not fail.
C18_EmitInvokesOnlyTheTopicsCallback ==
    act = "emit" =>
        /\ ~panicked
        /\ cbs = IF handlers[arg[1]] # NoHandler
                 THEN << <<"listener", arg[1], handlers[arg[1]], arg[2]>> >>
                 ELSE <<>>

\* An emit on one of two topics that have different callbacks.
C18_Witness ==
    /\ act = "emit"
    /\ handlers["trades"] = "cb1"
    /\ handlers["orders"] = "cb2"
    /\ cbs = << <<"listener", "orders", "cb2", "p2">> >>

\* C19: an on stores its callback for its topic, replacing the one the topic had,
\* an off removes the topic's callback, neither touches another topic and an emit
\* changes nothing; so the registry holds for each topic the callback of the most
\* recent on that no off has followed, and an emit after the off invokes nothing.
C19_RegistryHoldsMostRecentOn ==
    [][/\ act' = "add_listener"
            => handlers' = [t \in TopicNames |->
                               IF t = arg'[1] THEN arg'[2] ELSE handlers[t]]
       /\ act' = "off"
            => handlers' = [t \in TopicNames |->
                               IF t = arg'[1] THEN NoHandler ELSE handlers[t]]
       /\ act' = "emit"
            => /\ handlers' = handlers
               /\ (handlers[arg'[1]] = NoHandler => cbs' = <<>>)]_vars

\* An emit on a topic that was registered and has been removed since, while the
\* other topic holds the second callback registered for it.
C19_Witness ==
    /\ act = "emit"
    /\ arg[1] = "trades"
    /\ regOrder = <<"orders", "trades", "open">>
    /\ handlers["trades"] = NoHandler
    /\ handlers["orders"] = "cb2"
    /\ cbs = <<>>

\* C20: a listener is invoked for a message only when no message delivered
\* before it is still waiting to be routed, whatever the text, ArrayBuffer and
\* Blob payloads are.
C20_DispatchedInDeliveryOrder ==
    [][/\ (act' = "onmessage" /\ cbs' # <<>>) => reading = <<>>
       /\ (act' = "onloadend" /\ cbs' # <<>>) => arg'[3] = 1]_vars

\* C21: a text or binary payload that is no JSON object, or has no topic key,
\* fails only its own message: the handler does not panic and invokes no callback
\* but the listener of "error".
C21_BadPayloadEmitsError ==
    (act = "onmessage" /\ arg[2].kind \in {"garbage", "nokey"}) =>
        /\ ~panicked
        /\ \A i \in 1..Len(cbs) : cbs[i][1] = "listener" /\ cbs[i][2] = "error"

\* C22: a payload whose first key is jsonrpc goes to the RPC dispatch and to no
\* listener; a payload with any other first key goes to the listener of exactly
\* that topic, with the value under the key, and to no RPC callback.
C22_RoutedByTopicName ==
    (act = "onmessage" /\ arg[2].kind \notin {"garbage", "nokey"}) =>
        /\ arg[2].key = "jsonrpc"
              => \A i \in 1..Len(cbs) : cbs[i][1] = "rpc"
        /\ arg[2].key # "jsonrpc"
              => cbs = IF handlers[arg[2].key] # NoHandler
                       THEN << <<"listener", arg[2].key, handlers[arg[2].key],
                                 to_string(arg[2].val)>> >>
                       ELSE <<>>

\* A topic message reaches its listener while an RPC request is pending.
C22_Witness ==
    /\ act = "onmessage"
    /\ arg[2].key = "trades"
    /\ DOMAIN subscriber # {}
    /\ cbs = << <<"listener", "trades", "cb1", to_string("data")>> >>

\* C23: the reconnect policy is Retrying (is_reconnecting true) from a close with
\* reconnection enabled, through failed retries, until the next open.
C23_RetryingFromCloseUntilOpen ==
    (cfg.reconnect /\ act \in {"onclose", "retry_err", "retry_ok"}) => is_reconnecting

\* C25: a client built with no_reconnect never has a retry task scheduled or a
\* retry closure stored, and never constructs a handle after the first one.
C25_NoReconnectNeverRetries ==
    ~cfg.reconnect =>
        /\ timeouts = {}
        /\ retry_closure = None
        /\ Len(readyState) = 1

\* The close handler of a no_reconnect client has run, after an explicit close.
C25_Witness ==
    /\ ~cfg.reconnect
    /\ cfg.on_close
    /\ is_closing
    /\ act = "onclose"
    /\ readyState = <<"Closed">>
    /\ cbs # <<>>

\* The listener invocations the last step made for topic t.
LocalEmits(t) == Len(SelectSeq(cbs, LAMBDA c : c[1] = "listener" /\ c[2] = t))

\* C24: in every builder configuration a transport open, close or error reaches
\* the listener of "open", "close" or "error" once, and an error invokes the user
\* error callback once when one was supplied.
C24_LocalEventPerTransportEvent ==
    /\ (act = "onopen" /\ handlers["open"] # NoHandler) => LocalEmits("open") = 1
    /\ (act = "onclose" /\ handlers["close"] # NoHandler) => LocalEmits("close") = 1
    /\ (act = "onerror" /\ handlers["error"] # NoHandler) => LocalEmits("error") = 1
    /\ (act = "onerror" /\ cfg.on_error)
          => Len(SelectSeq(cbs, LAMBDA c : c = user("on_error")[1])) = 1

\* C26: a close, a failed retry, a successful retry and an open leave the listener
\* registry, both RPC callback tables and the request id counter as they were.
C26_ReconnectKeepsRegistrations ==
    [][act' \in {"onclose", "retry_err", "retry_ok", "onopen"}
          => /\ handlers' = handlers
             /\ subscriber' = subscriber
             /\ error_subscriber' = error_subscriber
             /\ id' = id]_vars

\* The handle of a reconnect opens after a failed retry; a listener and a request
\* registered on the first handle are still there.
C26_Witness ==
    /\ act = "onopen"
    /\ Len(readyState) = 2
    /\ nClosures >= 2
    /\ handlers["trades"] = "cb1"
    /\ Len(issued) = 1
    /\ issued[1].h = 1
    /\ subscriber[0] = "ok1"
    /\ error_subscriber[0] = "err1"
    /\ id = 1

\* C27: a send_*_rpc takes an id and stores both callbacks under it, hands the
\* frame to the transport once whatever the transport's state, reports nothing
\* and invokes no callback; and an open after a reconnect re-sends no request.
C27_RpcSendFailureIsSilent ==
    /\ act \in {"send_text_rpc", "send_binary_rpc"} =>
          /\ ~panicked
          /\ cbs = <<>>
          /\ Len(out) = 1
          /\ Len(issued) >= 1
          /\ issued[Len(issued)].id \in DOMAIN subscriber
          /\ subscriber[issued[Len(issued)].id] = arg[2]
          /\ error_subscriber[issued[Len(issued)].id] = arg[3]
    /\ act = "onopen" =>
          \A i \in 1..Len(out) : out[i].frame[1] \notin {"jsonrpc", "bytes"}

\* C28: a callback that response dispatch invokes may call send_rpc or
\* add_listener on the same client: the call does not fail.
C28_CallbackMayCallTheClient ==
    act = "onmessage_reentrant" => ~panicked

====
